---- MODULE Spec2Model ----
(***************************************************************************)
(* A model of goreturns' return-completion engine (package returns):       *)
(*   - newZeroValueNode, the zero-value synthesizer        (fix.go)        *)
(*   - visitor.Visit under ast.Walk, the return collector  (fix.go)        *)
(*   - funcHasSingleReturnVal, the call-arity resolver     (index.go)      *)
(*   - fixReturns and removeBareReturns, the rewrite passes (fix.go)       *)
(*   - parse, the fragment normalizer's fallback chain     (returns.go)    *)
(*   - Process and parseAndCheck, the driver               (returns.go)    *)
(*   - cutSpace and matchSpace, the whitespace matcher     (returns.go)    *)
(* The AST is modelled by records: a file is a sequence of nodes in source *)
(* order, each naming its parent; a *ast.FuncType is identified by the     *)
(* index of the function node that owns it.                                *)
(***************************************************************************)
EXTENDS Integers, Sequences, FiniteSets, TLC

VARIABLES
    pc,          \* position in the operation under way
    opt,         \* *Options: [Fragment, RemoveBareReturns]
    file,        \* the *ast.File being rewritten: a sequence of nodes
    typeInfo,    \* *types.Info handed to the passes: "nil" or "info"
    incReturns,  \* map[*ast.ReturnStmt]*ast.FuncType of the pass under way
    pending,     \* keys of incReturns the range loop has not visited yet
    input,       \* the file as first handed to Process
    out1,        \* the file as the first Process run left it
    run,         \* 1: first Process run, 2: Process on its own output
    parser,      \* what parser.ParseFile answers for each of parse's attempts
    attempts,    \* the attempts parse has made so far, in order
    parsed,      \* what parse returned: [file, adjust, err]
    typ,         \* the type descriptor handed to newZeroValueNode
    zv,          \* what newZeroValueNode returned for typ
    pkgDir,      \* Process's pkgDir argument: "" or a directory
    collab,      \* what build.ImportDir and cfg.Check answered, "" if not called
    result,      \* what Process returned: [out, err]
    orig,        \* matchSpace's orig argument, a sequence of bytes
    src,         \* matchSpace's src argument, a sequence of bytes
    matched      \* what matchSpace returned for orig and src

vars == <<pc, opt, file, typeInfo, incReturns, pending, input, out1, run,
          parser, attempts, parsed, typ, zv, pkgDir, collab, result,
          orig, src, matched>>

fixVars == <<file, typeInfo, incReturns, pending, input, out1, run>>
parseVars == <<parser, attempts, parsed>>
zeroVars == <<typ, zv>>
procVars == <<pkgDir, collab, result>>
spaceVars == <<orig, src, matched>>

(***************************************************************************)
(* Bounds of the model.                                                    *)
(***************************************************************************)
\* most results (names counted one by one) a generated signature declares
MaxResults == 3
\* most values a generated return statement lists
MaxVals == 3
\* most nodes of a generated tree for the collector
MaxNodes == 4
\* most pointer/array/slice layers around a generated type descriptor
MaxTypeDepth == 1

(***************************************************************************)
(* Type descriptors (ast.Expr in type position).  A descriptor is the      *)
(* sequence of its layers, outermost first: *[2]int is                     *)
(* <<StarExpr, ArrayType with Len "2", Ident int>>.                        *)
(***************************************************************************)
Layer(kind, name, len) == [kind |-> kind, name |-> name, len |-> len]

IdentType(name) == <<Layer("Ident", name, "")>>
StarOf(t) == <<Layer("StarExpr", "", "")>> \o t
\* len = "nil": v.Len == nil, a slice; otherwise the array length expression
ArrayOf(len, t) == <<Layer("ArrayType", "", len)>> \o t

\* the identifiers of fix.go:139..149
IntegerNames ==
    {"uint8", "uint16", "uint32", "uint64", "int8", "int16", "int32",
     "int64", "byte", "rune", "uint", "int", "uintptr"}
FloatNames == {"float32", "float64"}
ComplexNames == {"complex64", "complex128"}

\* identifiers that name no predeclared type: a struct T, an interface I,
\* an identifier X nothing declares
OpaqueNames == {"T", "I", "X"}

BaseTypes ==
    {IdentType(n) : n \in IntegerNames \cup FloatNames \cup ComplexNames
                          \cup {"bool", "string", "error"} \cup OpaqueNames}
    \cup {<<Layer(k, "", "")>> :
            k \in {"SelectorExpr", "InterfaceType", "StructType", "MapType",
                   "ChanType", "FuncType", "ParenExpr"}}

RECURSIVE TypeDescs(_)
TypeDescs(depth) ==
    IF depth = 0 THEN BaseTypes
    ELSE LET inner == TypeDescs(depth - 1) IN
         inner \cup {StarOf(t) : t \in inner}
               \cup {ArrayOf(len, t) : len \in {"nil", "2"}, t \in inner}

(***************************************************************************)
(* Expressions (ast.Expr in value position).  id > 0 is the identity of a  *)
(* node the parser made; the nodes the passes synthesize have id 0.        *)
(* tv is the type go/types records for the expression: "Tuple", "Basic"    *)
(* (a valid type that is no tuple), "Invalid" (types.Typ[types.Invalid])   *)
(* or "nil" (no type recorded).                                            *)
(***************************************************************************)
NoFuncType == [ResultsNil |-> TRUE, List |-> <<>>]
NoFun == [kind |-> "none", X |-> "", Sel |-> "", Obj |-> "nil", Decl |-> NoFuncType]

Expr(kind, id, tok, val, t, fun, tv) ==
    [kind |-> kind, id |-> id, tok |-> tok, val |-> val, typ |-> t,
     fun |-> fun, tv |-> tv]

\* the nil ast.Expr
NoNode == Expr("nil", 0, "", "", <<>>, NoFun, "nil")
BasicLit(tok, val) == Expr("BasicLit", 0, tok, val, <<>>, NoFun, "nil")
Ident(name) == Expr("Ident", 0, "IDENT", name, <<>>, NoFun, "nil")
CompositeLit(t) == Expr("CompositeLit", 0, "", "", t, NoFun, "nil")

(***************************************************************************)
(* newZeroValueNode (fix.go:135): the zero value of typ, NoNode when it    *)
(* cannot be told from the descriptor.                                     *)
(***************************************************************************)
\* fix.go:152..157; as a bug: every ArrayType taken for a slice
ArrayZeroValueAlwaysNil(v) == Ident("nil")
ArrayZeroValue(v) ==
    IF v[1].len = "nil" THEN Ident("nil") ELSE CompositeLit(v)

newZeroValueNode(t) ==
    LET v == t[1] IN
    CASE v.kind = "Ident" ->
           (CASE v.name \in IntegerNames -> BasicLit("INT", "0")
              [] v.name \in FloatNames -> BasicLit("FLOAT", "0")
              [] v.name \in ComplexNames -> BasicLit("IMAG", "0")
              [] v.name = "bool" -> Ident("false")
              [] v.name = "string" -> BasicLit("STRING", "\"\"")
              [] v.name = "error" -> Ident("nil")
              [] OTHER -> NoNode)
      [] v.kind = "ArrayType" -> ArrayZeroValue(t)
      [] v.kind = "StarExpr" -> Ident("nil")
      [] OTHER -> NoNode

(***************************************************************************)
(* Signatures and nodes.  An *ast.FuncType keeps Results, a *ast.FieldList *)
(* that is nil (ResultsNil) or holds List, one *ast.Field per declared     *)
(* type: (a, b int, err error) is two fields, the first with two Names.    *)
(***************************************************************************)
Field(names, t) == [Names |-> names, Type |-> t]
FuncType(list) == [ResultsNil |-> FALSE, List |-> list]

Node(kind, parent, ftyp, results) ==
    [kind |-> kind, parent |-> parent, Type |-> ftyp, Results |-> results]

IsFunc(f, n) == f[n].kind \in {"FuncDecl", "FuncLit"}
ReturnsOf(f) == {n \in 1..Len(f) : f[n].kind = "ReturnStmt"}

\* the children of node n (0: the *ast.File) in source order
Children(f, n) ==
    SelectSeq([i \in 1..Len(f) |-> i], LAMBDA i : f[i].parent = n)

EmptyMap == [x \in {} |-> 0]
Put(m, k, val) == [x \in DOMAIN m \cup {k} |-> IF x = k THEN val ELSE m[x]]

(***************************************************************************)
(* visitor.Visit (fix.go:117).  A visitor is a value [enclosing, returns]; *)
(* enclosing 0 is the nil *ast.FuncType, returns is the one shared map.    *)
(* Visit(nil), which ast.Walk calls on leaving a node, returns v and does  *)
(* nothing.                                                                *)
(***************************************************************************)
\* as a bug: no case for *ast.FuncLit
VisitNoFuncLit(v, n, f) ==
    CASE f[n].kind = "FuncDecl" -> [enclosing |-> n, returns |-> v.returns]
      [] f[n].kind = "ReturnStmt" ->
           [enclosing |-> v.enclosing, returns |-> Put(v.returns, n, v.enclosing)]
      [] OTHER -> v

Visit(v, n, f) ==
    CASE f[n].kind = "FuncDecl" -> [enclosing |-> n, returns |-> v.returns]
      [] f[n].kind = "FuncLit" -> [enclosing |-> n, returns |-> v.returns]
      [] f[n].kind = "ReturnStmt" ->
           [enclosing |-> v.enclosing, returns |-> Put(v.returns, n, v.enclosing)]
      [] OTHER -> v

(***************************************************************************)
(* ast.Walk(v, node) as fixReturns and removeBareReturns call it           *)
(* (fix.go:23, fix.go:80): w := v.Visit(node), then Walk(w, child) for     *)
(* every child in source order.  The value is the map once the walk is     *)
(* over.                                                                   *)
(***************************************************************************)
RECURSIVE Walk(_, _, _), WalkList(_, _, _)
Walk(v, n, f) ==
    LET w == IF n = 0 THEN v ELSE Visit(v, n, f)
    IN  WalkList(w, Children(f, n), f)
WalkList(w, kids, f) ==
    IF kids = <<>> THEN w.returns
    ELSE WalkList([w EXCEPT !.returns = Walk(w, Head(kids), f)], Tail(kids), f)

CollectReturns(f) == Walk([enclosing |-> 0, returns |-> EmptyMap], 0, f)

(***************************************************************************)
(* funcHasSingleReturnVal (index.go:10).  e.fun is the callee e.Fun:       *)
(* kind "Ident" with Obj "FuncDecl" is an identifier the parser resolved   *)
(* to a function declared in the same file, whose signature is Decl; Obj   *)
(* "nil" is an unresolved identifier, Obj "Other" one that resolves to     *)
(* something that is no function declaration.                              *)
(***************************************************************************)
IsLocalFuncCall(e) == e.fun.kind = "Ident" /\ e.fun.Obj = "FuncDecl"

\* index.go:14 reads fn.Type.Results.List: a nil Results is a nil dereference
funcHasSingleReturnValPanics(e) ==
    IsLocalFuncCall(e) /\ e.fun.Decl.ResultsNil

\* typeInfo.TypeOf(e), index.go:20
TypeOf(e) == e.tv

funcHasSingleReturnVal(ti, e) ==
    IF IsLocalFuncCall(e) THEN Len(e.fun.Decl.List) = 1
    ELSE IF ti # "nil" THEN TypeOf(e) # "Tuple"
    ELSE FALSE

(***************************************************************************)
(* The body of fixReturns' loop (fix.go:28..69) for one (ret, ftyp) pair.  *)
(***************************************************************************)
\* fix.go:39; as a bug: naked returns are not skipped
NakedReturnNever(numRVs) == FALSE
NakedReturn(numRVs) == numRVs = 0

\* fix.go:58, len(zvs); as a bug: one zero value whatever is missing
DeficitOne(numRVs, ftyp) == 1
Deficit(numRVs, ftyp) == Len(ftyp.List) - numRVs

\* fix.go:59..67: the zero values of the first n fields, NoNode where
\* newZeroValueNode returned nil
ZeroValues(ftyp, n) == [i \in 1..n |-> newZeroValueNode(ftyp.List[i].Type)]

\* fix.go:61..65, continue IncReturnsLoop; as a bug: only the first is tested
UndeterminableFirst(zvs) == zvs # <<>> /\ zvs[1] = NoNode
Undeterminable(zvs) == \E i \in 1..Len(zvs) : zvs[i] = NoNode

\* fix.go:68; as a bug: the zero values appended instead of prepended
RightFill(zvs, results) == results \o zvs
LeftFill(zvs, results) == zvs \o results

\* fix.go:51..55.  numRVs > 0 here: fix.go:39 has skipped the empty list.
SkipForCall(ti, results) ==
    /\ Len(results) > 0
    /\ results[1].kind = "CallExpr"
    /\ ~funcHasSingleReturnVal(ti, results[1])

\* the iteration reaches fix.go:51 and funcHasSingleReturnVal panics there
fixReturnPanics(results, ftyp) ==
    LET numRVs == Len(results) IN
    /\ ~ftyp.ResultsNil
    /\ numRVs # Len(ftyp.List)
    /\ ~NakedReturn(numRVs)
    /\ ~(numRVs > Len(ftyp.List))
    /\ numRVs > 0
    /\ results[1].kind = "CallExpr"
    /\ funcHasSingleReturnValPanics(results[1])

\* ret.Results when the iteration is over
fixReturn(ti, results, ftyp) ==
    LET numRVs == Len(results) IN
    IF ftyp.ResultsNil THEN results
    ELSE IF numRVs = Len(ftyp.List) THEN results
    ELSE IF NakedReturn(numRVs) THEN results
    ELSE IF numRVs > Len(ftyp.List) THEN results
    ELSE IF SkipForCall(ti, results) THEN results
    ELSE LET zvs == ZeroValues(ftyp, Deficit(numRVs, ftyp)) IN
         IF Undeterminable(zvs) THEN results
         ELSE LeftFill(zvs, results)

\* fix.go:68, the assignment to ret.Results; as a bug: the value list is
\* shared by every return statement of the file
SetResultsOfAll(f, ret, results) ==
    [n \in 1..Len(f) |->
        IF f[n].kind = "ReturnStmt" THEN [f[n] EXCEPT !.Results = results]
        ELSE f[n]]
SetResults(f, ret, results) == [f EXCEPT ![ret].Results = results]

(***************************************************************************)
(* The body of removeBareReturns' loop (fix.go:85..107).                   *)
(***************************************************************************)
removeBareReturn(results, ftyp) ==
    LET numRVs == Len(results) IN
    IF ftyp.ResultsNil THEN results
    ELSE IF numRVs = Len(ftyp.List) THEN results
    ELSE IF numRVs = 0 /\ Len(ftyp.List) > 0 THEN
         IF \E i \in 1..Len(ftyp.List) : Len(ftyp.List[i].Names) = 0
         THEN results
         ELSE [i \in 1..Len(ftyp.List) |-> Ident(ftyp.List[i].Names[1])]
              \o results
    ELSE results

(***************************************************************************)
(* The inputs: signatures, return statements and files within the bounds.  *)
(***************************************************************************)
ResultNames == <<"a", "b", "c", "d", "e", "f">>

\* a type whose zero value is determinable and two whose is not: an
\* identifier nothing predeclares and a package-qualified type
SigTypes ==
    {IdentType("int"), IdentType("X"), <<Layer("SelectorExpr", "url.URL", "")>>}

\* the number of results a signature declares, names counted one by one
\* (go/ast's FieldList.NumFields)
RECURSIVE NumFields(_)
NumFields(list) ==
    IF list = <<>> THEN 0
    ELSE (IF Len(Head(list).Names) = 0 THEN 1 ELSE Len(Head(list).Names))
         + NumFields(Tail(list))
NumResults(ftyp) == IF ftyp.ResultsNil THEN 0 ELSE NumFields(ftyp.List)

\* the result lists declaring at most budget results, all named (next: the
\* index of the next name) or all unnamed, as the parser accepts them
RECURSIVE FieldLists(_, _, _)
FieldLists(named, budget, next) ==
    {<<>>} \cup
    UNION {{<<Field(IF named THEN [j \in 1..w |-> ResultNames[next + j - 1]]
                    ELSE <<>>, t)>> \o rest :
                rest \in FieldLists(named, budget - w, next + w)} :
           w \in 1..(IF named \/ budget = 0 THEN budget ELSE 1), t \in SigTypes}

Signatures ==
    {NoFuncType} \cup
    {FuncType(l) : l \in FieldLists(FALSE, MaxResults, 1)
                         \cup FieldLists(TRUE, MaxResults, 1)}

\* an expression of the input that is no call
OrigExpr(id) == Expr("Ident", id, "IDENT", "v", <<>>, NoFun, "nil")
CallExpr(id, fun, tv) == Expr("CallExpr", id, "", "", <<>>, fun, tv)

\* the signatures of the functions the file declares and calls:
\* func x(), func x() (), func x() error, func x() (a, b int),
\* func x() (int, error)
LocalDecls ==
    {NoFuncType, FuncType(<<>>),
     FuncType(<<Field(<<>>, IdentType("error"))>>),
     FuncType(<<Field(<<"a", "b">>, IdentType("int"))>>),
     FuncType(<<Field(<<>>, IdentType("int")), Field(<<>>, IdentType("error"))>>)}

LocalFun(d) == [kind |-> "Ident", X |-> "x", Sel |-> "", Obj |-> "FuncDecl", Decl |-> d]
\* callees that are no function of the file: an identifier declared in
\* another file, a variable of function type, pkg.Func, a parenthesized
\* conversion (x(pkg.Func))
ForeignFuns ==
    {[kind |-> "Ident", X |-> "g", Sel |-> "", Obj |-> o, Decl |-> NoFuncType] :
        o \in {"nil", "Other"}}
    \cup {[kind |-> "SelectorExpr", X |-> q[1], Sel |-> q[2], Obj |-> "nil",
           Decl |-> NoFuncType] :
            q \in {<<"errors", "New">>, <<"fmt", "Errorf">>, <<"strconv", "Atoi">>}}
    \cup {[kind |-> "ParenExpr", X |-> "", Sel |-> "", Obj |-> "nil", Decl |-> NoFuncType]}

\* the types go/types can record for a call: that of a function of the file
\* follows from its declaration (no result: the empty tuple); for another
\* callee a tuple, a single type, the invalid type (a *types.Basic) or none
RecordedTypes(ti, fun) ==
    IF ti = "nil" THEN {"nil"}
    ELSE IF fun.Obj = "FuncDecl"
         THEN {IF NumResults(fun.Decl) = 1 THEN "Basic" ELSE "Tuple"}
    ELSE IF fun.kind = "SelectorExpr" /\ fun.Sel \in {"New", "Errorf"}
         THEN {"Basic"}
    ELSE {"Tuple", "Basic", "Invalid", "nil"}

Calls(ti) ==
    {CallExpr(1, fun, tv) :
        <<fun, tv>> \in UNION {{<<g, t>> : t \in RecordedTypes(ti, g)} :
                                g \in {LocalFun(d) : d \in LocalDecls} \cup ForeignFuns}}

\* the value lists of a return statement: the first value a call or not
ReturnValues(ti) ==
    {<<>>} \cup
    {<<first>> \o [j \in 1..(k - 1) |-> OrigExpr(j + 1)] :
        k \in 1..MaxVals, first \in {OrigExpr(1)} \cup Calls(ti)}

FuncDeclNode(ftyp) == Node("FuncDecl", 0, ftyp, <<>>)
FuncLitNode(parent, ftyp) == Node("FuncLit", parent, ftyp, <<>>)
ReturnNode(parent, results) == Node("ReturnStmt", parent, NoFuncType, results)

\* func F() sig { return vals }
OneFuncFiles(ti) ==
    {<<FuncDeclNode(sig), ReturnNode(1, vals)>> :
        sig \in Signatures, vals \in ReturnValues(ti)}

\* (signature, values) pairs for the files with two functions:
\* (int, error) return v; (string, error) return v; (X, error) return v;
\* (a int, err error) return; (int) return v, w
SmallConfigs ==
    {<<FuncType(<<Field(<<>>, IdentType("int")), Field(<<>>, IdentType("error"))>>),
       <<OrigExpr(1)>>>>,
     <<FuncType(<<Field(<<>>, IdentType("string")), Field(<<>>, IdentType("error"))>>),
       <<OrigExpr(1)>>>>,
     <<FuncType(<<Field(<<>>, IdentType("X")), Field(<<>>, IdentType("error"))>>),
       <<OrigExpr(1)>>>>,
     <<FuncType(<<Field(<<"a">>, IdentType("int")), Field(<<"err">>, IdentType("error"))>>),
       <<>>>>,
     <<FuncType(<<Field(<<>>, IdentType("int"))>>),
       <<OrigExpr(1), OrigExpr(2)>>>>}

\* func outer() sigO { _ = func() sigL { return valsL }; return valsO }
ClosureFiles ==
    {<<FuncDeclNode(o[1]), FuncLitNode(1, l[1]), ReturnNode(2, l[2]),
       ReturnNode(1, o[2])>> :
        o \in SmallConfigs, l \in SmallConfigs}

NoParse == [file |-> 0, adjust |-> "nil", err |-> 0]
IdleFix ==
    /\ file = <<>> /\ input = <<>> /\ out1 = <<>>
    /\ typeInfo = "nil" /\ incReturns = EmptyMap /\ pending = {} /\ run = 1
IdleParse == parser = <<>> /\ attempts = <<>> /\ parsed = NoParse
IdleZero == typ = <<>> /\ zv = NoNode
NoResult == [out |-> "", err |-> ""]
NoCollab == [ImportDir |-> "", Check |-> ""]
IdleProc == pkgDir = "" /\ collab = NoCollab /\ result = NoResult
IdleSpace == orig = <<>> /\ src = <<>> /\ matched = <<>>

(***************************************************************************)
(* Process (returns.go:242) from fixReturns on, and Process once more on   *)
(* what it produced.                                                       *)
(***************************************************************************)
Init ==
    /\ pc = "fixReturns"
    /\ opt \in [Fragment : {TRUE}, RemoveBareReturns : BOOLEAN]
    /\ typeInfo \in {"nil", "info"}
    /\ file \in OneFuncFiles(typeInfo) \cup ClosureFiles
    /\ input = file
    /\ out1 = file
    /\ incReturns = EmptyMap
    /\ pending = {}
    /\ run = 1
    /\ IdleParse
    /\ IdleZero
    /\ IdleProc
    /\ IdleSpace

\* where Process goes when fixReturns returns nil (returns.go:257)
AfterFixReturns == IF opt.RemoveBareReturns THEN "removeBareReturns" ELSE "print"

\* fix.go:20..23: collect the returns
FixCollect ==
    /\ pc = "fixReturns"
    /\ incReturns' = CollectReturns(file)
    /\ pending' = DOMAIN incReturns'
    /\ pc' = IF pending' = {} THEN AfterFixReturns ELSE "fixLoop"
    /\ UNCHANGED <<opt, file, typeInfo, input, out1, run, parseVars, zeroVars,
                 procVars, spaceVars>>

\* fix.go:28..69: one iteration of the range loop, in any order
FixIter ==
    /\ pc = "fixLoop"
    /\ \E ret \in pending :
        LET ftyp == file[incReturns[ret]].Type IN
        IF fixReturnPanics(file[ret].Results, ftyp)
        THEN /\ pc' = "panic"
             /\ UNCHANGED <<file, pending>>
        ELSE /\ file' = SetResults(file, ret,
                                   fixReturn(typeInfo, file[ret].Results, ftyp))
             /\ pending' = pending \ {ret}
             /\ pc' = IF pending' = {} THEN AfterFixReturns ELSE "fixLoop"
    /\ UNCHANGED <<opt, typeInfo, incReturns, input, out1, run, parseVars, zeroVars,
                 procVars, spaceVars>>

\* fix.go:77..80
BareCollect ==
    /\ pc = "removeBareReturns"
    /\ incReturns' = CollectReturns(file)
    /\ pending' = DOMAIN incReturns'
    /\ pc' = IF pending' = {} THEN "print" ELSE "bareLoop"
    /\ UNCHANGED <<opt, file, typeInfo, input, out1, run, parseVars, zeroVars,
                 procVars, spaceVars>>

\* fix.go:85..107: one iteration of the range loop, in any order
BareIter ==
    /\ pc = "bareLoop"
    /\ \E ret \in pending :
        /\ file' = [file EXCEPT ![ret].Results =
                       removeBareReturn(file[ret].Results,
                                        file[incReturns[ret]].Type)]
        /\ pending' = pending \ {ret}
        /\ pc' = IF pending' = {} THEN "print" ELSE "bareLoop"
    /\ UNCHANGED <<opt, typeInfo, incReturns, input, out1, run, parseVars, zeroVars,
                 procVars, spaceVars>>

\* Process is called on the output of its first run: the returns are those
\* the first run left; type checking (returns.go:332) succeeds as before or
\* now fails, and the passes then run without type information
Rerun ==
    /\ pc = "print"
    /\ run = 1
    /\ run' = 2
    /\ out1' = file
    /\ typeInfo' \in {typeInfo, "nil"}
    /\ incReturns' = EmptyMap
    /\ pending' = {}
    /\ pc' = "fixReturns"
    /\ UNCHANGED <<opt, file, input, parseVars, zeroVars,
                 procVars, spaceVars>>

Next == FixCollect \/ FixIter \/ BareCollect \/ BareIter \/ Rerun

Spec == Init /\ [][Next]_vars

(***************************************************************************)
(* What the claims speak of.                                               *)
(***************************************************************************)
\* the innermost function declaration or literal around node n (0: none),
\* read off the tree
RECURSIVE InnermostFunc(_, _)
InnermostFunc(f, n) ==
    LET p == f[n].parent IN
    IF p = 0 THEN 0 ELSE IF IsFunc(f, p) THEN p ELSE InnermostFunc(f, p)

\* the signature around return r, its values on input and its values now
SigOf(r) == file[InnermostFunc(file, r)].Type
In(r) == input[r].Results
Now(r) == file[r].Results

\* only fixReturns of the first run has acted on the file so far
FixReturnsOnly ==
    /\ run = 1
    /\ \/ pc \in {"fixReturns", "fixLoop", "panic", "removeBareReturns"}
       \/ pc = "print" /\ ~opt.RemoveBareReturns
\* fixReturns of the first run has returned and nothing has run since
FixReturnsDone ==
    /\ run = 1
    /\ \/ pc = "removeBareReturns"
       \/ pc = "print" /\ ~opt.RemoveBareReturns

\* the policy table of the zero-value synthesizer, by descriptor class
PolicyZero(t) ==
    LET d == t[1] IN
    IF d.kind = "Ident" /\ d.name \in
         {"int", "int8", "int16", "int32", "int64", "uint", "uint8", "uint16",
          "uint32", "uint64", "byte", "rune", "uintptr"}
    THEN BasicLit("INT", "0")
    ELSE IF d.kind = "Ident" /\ d.name \in {"float32", "float64"}
    THEN BasicLit("FLOAT", "0")
    ELSE IF d.kind = "Ident" /\ d.name \in {"complex64", "complex128"}
    THEN BasicLit("IMAG", "0")
    ELSE IF d.kind = "Ident" /\ d.name = "bool" THEN Ident("false")
    ELSE IF d.kind = "Ident" /\ d.name = "string" THEN BasicLit("STRING", "\"\"")
    ELSE IF d.kind = "Ident" /\ d.name = "error" THEN Ident("nil")
    ELSE IF d.kind = "StarExpr" THEN Ident("nil")
    ELSE IF d.kind = "ArrayType" /\ d.len = "nil" THEN Ident("nil")
    ELSE IF d.kind = "ArrayType" THEN CompositeLit(t)
    ELSE NoNode

\* the declared names of a result list, in declaration order
RECURSIVE AllNames(_)
AllNames(list) ==
    IF list = <<>> THEN <<>> ELSE Head(list).Names \o AllNames(Tail(list))
AllNamed(list) == \A i \in 1..Len(list) : Len(list[i].Names) > 0

(***************************************************************************)
(* C1. Arity invariant: once fixReturns has returned, every return         *)
(* statement lists either as many values as its signature declares         *)
(* results (names counted one by one, so (a, b int, err error) declares    *)
(* three) or as many as it listed on input.                                *)
(***************************************************************************)
C1_ArityInvariant ==
    FixReturnsDone =>
        \A r \in ReturnsOf(file) :
            Len(Now(r)) \in {NumResults(SigOf(r)), Len(In(r))}

MissingSlots(r) == 1..(Len(SigOf(r).List) - Len(In(r)))

C5_TupleCallSkipped ==
    (FixReturnsOnly /\ typeInfo = "info") =>
        \A r \in ReturnsOf(file) :
            (/\ Len(In(r)) = 1
             /\ In(r)[1].kind = "CallExpr"
             /\ In(r)[1].tv = "Tuple"
             /\ 1 < NumResults(SigOf(r)))
            => Now(r) = In(r)

(***************************************************************************)
(* C7. Idempotence: in the second run of the passes, on the output of the  *)
(* first, no return statement changes and no pass fails.                   *)
(***************************************************************************)
C7_Idempotent == run = 2 => (file = out1 /\ pc # "panic")

C7_Witness ==
    /\ run = 2
    /\ pc = "print"
    /\ opt.RemoveBareReturns
    /\ \E r \in ReturnsOf(file) : out1[r].Results # In(r)
    /\ \E r \in ReturnsOf(file) :
        /\ 0 < Len(In(r))
        /\ Len(In(r)) < NumResults(SigOf(r))
        /\ out1[r].Results = In(r)

(***************************************************************************)
(* C8. Skip rules: fixReturns leaves a return statement's values as they   *)
(* were on input when the signature declares no results, when the value    *)
(* count equals the declared result count (the number of results, or the  *)
(* number of entries of the result list), when it is zero, and when it     *)
(* exceeds the declared result count.                                      *)
(***************************************************************************)
C8_SkipRules ==
    FixReturnsOnly =>
        \A r \in ReturnsOf(file) :
            (\/ NumResults(SigOf(r)) = 0
             \/ Len(In(r)) = NumResults(SigOf(r))
             \/ Len(In(r)) = Len(SigOf(r).List)
             \/ Len(In(r)) = 0
             \/ Len(In(r)) > NumResults(SigOf(r)))
            => Now(r) = In(r)

C8_Witness ==
    /\ FixReturnsDone
    /\ \E r \in ReturnsOf(file) :
        /\ In(r) = <<>>
        /\ NumResults(SigOf(r)) > 0
        /\ ~AllNamed(SigOf(r).List)
        /\ Now(r) = <<>>

(***************************************************************************)
(* C9. Bare-return expansion: with the option enabled, once Process has    *)
(* run the passes, a return statement that had no values under a           *)
(* signature declaring at least one result lists all the declared result   *)
(* names in declaration order if every result is named, and is as on       *)
(* input if a result is unnamed; with the option disabled a return         *)
(* statement that had no values never has one.                             *)
(***************************************************************************)
C9_BareReturnExpansion ==
    \A r \in ReturnsOf(file) :
        (In(r) = <<>> /\ NumResults(SigOf(r)) > 0) =>
            /\ ~opt.RemoveBareReturns => Now(r) = <<>>
            /\ (opt.RemoveBareReturns /\ run = 1 /\ pc = "print") =>
                   IF AllNamed(SigOf(r).List)
                   THEN Now(r) = [i \in 1..NumResults(SigOf(r)) |->
                                    Ident(AllNames(SigOf(r).List)[i])]
                   ELSE Now(r) = <<>>

(***************************************************************************)
(* The collector alone, over every tree within MaxNodes: fixReturns up to  *)
(* the end of its ast.Walk (fix.go:20..23).                                *)
(***************************************************************************)
\* signatures of different arity: (int, error) for the declarations, (int)
\* for the literals
DeclSig ==
    FuncType(<<Field(<<>>, IdentType("int")), Field(<<>>, IdentType("error"))>>)
LitSig == FuncType(<<Field(<<>>, IdentType("int"))>>)

\* walking up from node p (p included), a function is met before any
\* return statement: a statement may stand at p's place
RECURSIVE InFuncBody(_, _)
InFuncBody(f, p) ==
    IF p = 0 THEN FALSE
    ELSE IF IsFunc(f, p) THEN TRUE
    ELSE IF f[p].kind = "ReturnStmt" THEN FALSE
    ELSE InFuncBody(f, f[p].parent)

\* the nodes that can follow the nodes of t: function declarations at top
\* level, return statements in function bodies only
NextNodes(t) ==
    {Node("FuncDecl", 0, DeclSig, <<>>)}
    \cup {Node("FuncLit", p, LitSig, <<>>) : p \in 0..Len(t)}
    \cup {Node("Other", p, NoFuncType, <<>>) : p \in 0..Len(t)}
    \cup {Node("ReturnStmt", p, NoFuncType, <<>>) :
            p \in {q \in 1..Len(t) : InFuncBody(t, q)}}

RECURSIVE TreesOfLen(_)
TreesOfLen(n) ==
    IF n = 0 THEN {<<>>}
    ELSE UNION {{Append(t, nd) : nd \in NextNodes(t)} : t \in TreesOfLen(n - 1)}

TreesUpTo(n) == UNION {TreesOfLen(k) : k \in 1..n}

InitWalk ==
    /\ pc = "fixReturns"
    /\ opt = [Fragment |-> TRUE, RemoveBareReturns |-> FALSE]
    /\ typeInfo = "nil"
    /\ file \in TreesUpTo(MaxNodes)
    /\ input = file
    /\ out1 = file
    /\ incReturns = EmptyMap
    /\ pending = {}
    /\ run = 1
    /\ IdleParse
    /\ IdleZero
    /\ IdleProc
    /\ IdleSpace

SpecWalk == InitWalk /\ [][FixCollect]_vars

(***************************************************************************)
(* C3. Scope correctness: the collector binds every return statement, and  *)
(* binds it to the signature of the innermost function declaration or      *)
(* literal around it.                                                      *)
(***************************************************************************)
C3_ScopeCorrectness ==
    pc # "fixReturns" =>
        /\ DOMAIN incReturns = ReturnsOf(file)
        /\ \A r \in ReturnsOf(file) : incReturns[r] = InnermostFunc(file, r)

\* func d() A { _ = func() B { return }; return }, A and B of different arity
C3_Witness ==
    /\ pc = "fixLoop"
    /\ \E d, l, r1, r2 \in 1..Len(file) :
        /\ file[d].kind = "FuncDecl"
        /\ file[l].kind = "FuncLit" /\ file[l].parent = d
        /\ file[r1].kind = "ReturnStmt" /\ file[r1].parent = l
        /\ file[r2].kind = "ReturnStmt" /\ file[r2].parent = d /\ r2 > l
        /\ Len(file[d].Type.List) # Len(file[l].Type.List)
        /\ incReturns[r1] = l
        /\ incReturns[r2] = d

(***************************************************************************)
(* The zero-value synthesizer alone, over every descriptor within          *)
(* MaxTypeDepth.                                                           *)
(***************************************************************************)
InitZero ==
    /\ pc = "zero"
    /\ opt = [Fragment |-> TRUE, RemoveBareReturns |-> FALSE]
    /\ typ \in TypeDescs(MaxTypeDepth)
    /\ zv = NoNode
    /\ IdleFix
    /\ IdleParse
    /\ IdleProc
    /\ IdleSpace

\* zv := newZeroValueNode(rt.Type), fix.go:60
Synthesize ==
    /\ pc = "zero"
    /\ zv' = newZeroValueNode(typ)
    /\ pc' = "zeroDone"
    /\ UNCHANGED <<opt, typ, fixVars, parseVars, procVars, spaceVars>>

SpecZero == InitZero /\ [][Synthesize]_vars

(***************************************************************************)
(* C6. Zero-value synthesis follows the policy table: integer kinds, byte, *)
(* rune and uintptr give the integer literal 0, floats the floating        *)
(* literal 0, complex kinds the imaginary literal 0, bool false, string    *)
(* the empty string literal, error, pointers and slices nil, a fixed-size  *)
(* array an empty composite literal of that array type, and every other    *)
(* descriptor no value.                                                    *)
(***************************************************************************)
C6_PolicyTable == pc = "zeroDone" => zv = PolicyZero(typ)

C6_Witness ==
    /\ pc = "zeroDone"
    /\ typ[1].kind = "ArrayType"
    /\ typ[1].len = "2"
    /\ zv.kind = "CompositeLit"
    /\ zv.typ = typ

(***************************************************************************)
(* parse (returns.go:349).  parser[i] is what parser.ParseFile answers at  *)
(* attempt i (1: the source as it is, 2: behind "package main;", 3: inside *)
(* "package p; func _() {" and "}"): ok, or an error whose text contains   *)
(* "expected 'package'" (pkg) and "expected declaration" (decl) or not;    *)
(* main: containsMainFunc of the file parsed.  In parsed, file is the      *)
(* attempt whose tree is returned and err the attempt whose error is       *)
(* returned, 0 for nil.                                                    *)
(***************************************************************************)
ParserAnswers ==
    {[ok |-> TRUE, pkg |-> FALSE, decl |-> FALSE, main |-> m] : m \in BOOLEAN}
    \cup {[ok |-> FALSE, pkg |-> p, decl |-> d, main |-> FALSE] :
            p \in BOOLEAN, d \in BOOLEAN}

InitParse ==
    /\ pc = "parse"
    /\ opt \in [Fragment : BOOLEAN, RemoveBareReturns : {FALSE}]
    /\ parser \in [1..3 -> ParserAnswers]
    /\ attempts = <<>>
    /\ parsed = NoParse
    /\ IdleFix
    /\ IdleZero
    /\ IdleProc
    /\ IdleSpace

\* returns.go:363, negated; as a bug: opt.Fragment is not consulted
FallThroughWithoutFragment(o, e) == e.pkg
FallThroughToDecls(o, e) == o.Fragment /\ e.pkg

\* returns.go:356..365
ParseWhole ==
    /\ pc = "parse"
    /\ attempts' = Append(attempts, 1)
    /\ IF parser[1].ok
       THEN /\ parsed' = [file |-> 1, adjust |-> "nil", err |-> 0]
            /\ pc' = "parsed"
       ELSE IF ~FallThroughToDecls(opt, parser[1])
       THEN /\ parsed' = [file |-> 0, adjust |-> "nil", err |-> 1]
            /\ pc' = "parsed"
       ELSE /\ pc' = "tryDecls"
            /\ UNCHANGED parsed
    /\ UNCHANGED <<opt, parser, fixVars, zeroVars, procVars, spaceVars>>

\* returns.go:371..393
ParseDecls ==
    /\ pc = "tryDecls"
    /\ attempts' = Append(attempts, 2)
    /\ IF parser[2].ok
       THEN /\ parsed' = [file |-> 2,
                          adjust |-> IF parser[2].main THEN "nil" ELSE "decls",
                          err |-> 0]
            /\ pc' = "parsed"
       ELSE IF ~parser[2].decl
       THEN /\ parsed' = [file |-> 0, adjust |-> "nil", err |-> 2]
            /\ pc' = "parsed"
       ELSE /\ pc' = "tryStmts"
            /\ UNCHANGED parsed
    /\ UNCHANGED <<opt, parser, fixVars, zeroVars, procVars, spaceVars>>

\* returns.go:400..417
ParseStmts ==
    /\ pc = "tryStmts"
    /\ attempts' = Append(attempts, 3)
    /\ parsed' = IF parser[3].ok
                 THEN [file |-> 3, adjust |-> "stmts", err |-> 0]
                 ELSE [file |-> 0, adjust |-> "nil", err |-> 3]
    /\ pc' = "parsed"
    /\ UNCHANGED <<opt, parser, fixVars, zeroVars, procVars, spaceVars>>

NextParse == ParseWhole \/ ParseDecls \/ ParseStmts

SpecParse == InitParse /\ [][NextParse]_vars

(***************************************************************************)
(* C10. Parse fallback chain: the attempts are made in the order whole     *)
(* unit, declaration list, statement list, none after a successful one;    *)
(* the declaration-list attempt only with fragments accepted and a         *)
(* missing-package error from the whole-unit attempt; the statement-list   *)
(* attempt only after an expected-declaration error from the               *)
(* declaration-list attempt; a failing parse returns the error of the      *)
(* last attempt made, with no tree and no inverse transform.               *)
(***************************************************************************)
C10_FallbackChain ==
    /\ attempts = SubSeq(<<1, 2, 3>>, 1, Len(attempts))
    /\ \A i \in 1..(Len(attempts) - 1) : ~parser[attempts[i]].ok
    /\ Len(attempts) >= 2 =>
           (opt.Fragment /\ ~parser[1].ok /\ parser[1].pkg)
    /\ Len(attempts) >= 3 => (~parser[2].ok /\ parser[2].decl)
    /\ pc = "parsed" =>
           LET last == attempts[Len(attempts)] IN
           IF parser[last].ok
           THEN parsed.file = last /\ parsed.err = 0
           ELSE parsed = [file |-> 0, adjust |-> "nil", err |-> last]

C10_Witness ==
    /\ pc = "parsed"
    /\ attempts = <<1, 2, 3>>
    /\ parsed.err = 3

(***************************************************************************)
(* Process as a whole (returns.go:242..278): parse, the rest of            *)
(* parseAndCheck, the passes, printer.Fprint and format.Source.  file is   *)
(* the tree the successful parse attempt builds, with the types cfg.Check  *)
(* records for its calls; what build.ImportDir, cfg.Check, printer.Fprint  *)
(* and format.Source answer is the environment's choice.                   *)
(***************************************************************************)
\* func F() (int, error) { return vals }, func F() (a int, err error) { return vals },
\* vals at most one value
ProcessFiles ==
    {<<FuncDeclNode(FuncType(<<Field(n[1], IdentType("int")),
                               Field(n[2], IdentType("error"))>>)),
       ReturnNode(1, vals)>> :
        n \in {<<<<>>, <<>>>>, <<<<"a">>, <<"err">>>>},
        vals \in {v \in ReturnValues("info") : Len(v) <= 1}}

InitProcess ==
    /\ pc = "parse"
    /\ opt \in [Fragment : BOOLEAN, RemoveBareReturns : BOOLEAN]
    /\ parser \in [1..3 -> ParserAnswers]
    /\ attempts = <<>>
    /\ parsed = NoParse
    /\ pkgDir \in {"", "dir"}
    /\ collab = NoCollab
    /\ result = NoResult
    /\ file \in ProcessFiles
    /\ input = file
    /\ out1 = file
    /\ typeInfo = "nil"
    /\ incReturns = EmptyMap
    /\ pending = {}
    /\ run = 1
    /\ IdleZero
    /\ IdleSpace

\* the errors cfg.Check can return (returns.go:332): none, a types.Error
\* whose Msg starts with "wrong number of return values", any other
CheckErrors == {"nil", "wrong number of return values", "other"}

\* returns.go:333..342: the *types.Info parseAndCheck returns
InfoAfterCheck(err) == IF err = "other" THEN "nil" ELSE "info"

\* returns.go:248..251 with 285..344: parse has returned; the rest of
\* parseAndCheck and Process's test of its error
ParseAndCheck ==
    /\ pc = "parsed"
    /\ IF parsed.err # 0
       THEN \* returns.go:285..287, 249..251
            /\ result' = [out |-> "nil", err |-> "parse"]
            /\ pc' = "returned"
            /\ UNCHANGED <<collab, typeInfo>>
       ELSE \E imp \in (IF pkgDir # "" THEN {"ok", "err"} ELSE {""}) :
            IF imp = "err"
            THEN \* returns.go:294..299, 249..251
                 /\ collab' = [collab EXCEPT !.ImportDir = imp]
                 /\ result' = [out |-> "nil", err |-> "ImportDir"]
                 /\ pc' = "returned"
                 /\ UNCHANGED typeInfo
            ELSE \* returns.go:300..344
                 \E err \in CheckErrors :
                    /\ collab' = [ImportDir |-> imp, Check |-> err]
                    /\ typeInfo' = InfoAfterCheck(err)
                    /\ pc' = "fixReturns"
                    /\ UNCHANGED result
    /\ UNCHANGED <<opt, file, incReturns, pending, input, out1, run, pkgDir,
                   parseVars, zeroVars, spaceVars>>

\* returns.go:263..271: printer.Fprint, then the inverse transform
Fprint ==
    /\ pc = "print"
    /\ \E ok \in BOOLEAN :
        IF ok THEN pc' = "format" /\ UNCHANGED result
        ELSE /\ result' = [out |-> "nil", err |-> "Fprint"]
             /\ pc' = "returned"
    /\ UNCHANGED <<opt, fixVars, pkgDir, collab, parseVars, zeroVars, spaceVars>>

\* returns.go:273..277: format.Source
FormatSource ==
    /\ pc = "format"
    /\ \E ok \in BOOLEAN :
        result' = IF ok THEN [out |-> "bytes", err |-> "nil"]
                  ELSE [out |-> "nil", err |-> "Source"]
    /\ pc' = "returned"
    /\ UNCHANGED <<opt, fixVars, pkgDir, collab, parseVars, zeroVars, spaceVars>>

NextProcess ==
    \/ ParseWhole \/ ParseDecls \/ ParseStmts \/ ParseAndCheck
    \/ FixCollect \/ FixIter \/ BareCollect \/ BareIter
    \/ Fprint \/ FormatSource

SpecProcess == InitProcess /\ [][NextProcess]_vars

(***************************************************************************)
(* C11. Error propagation: Process returns an error, and then no output,   *)
(* only when parse failed in all the wrapping modes it tried or when       *)
(* printer.Fprint or format.Source failed; when build.ImportDir or         *)
(* cfg.Check fails, Process does not return that failure: the passes run   *)
(* without type information.                                               *)
(***************************************************************************)
C11_ErrorPropagation ==
    /\ pc = "returned" =>
        /\ result.err = "parse" => (parsed.err # 0 /\ ~parser[parsed.err].ok)
        /\ result.err # "nil" =>
              (result.out = "nil" /\ result.err \in {"parse", "Fprint", "Source"})
    /\ (collab.ImportDir = "err" \/ collab.Check = "other") =>
        /\ result.err \notin {"ImportDir", "Check"}
        /\ pc \in {"fixReturns", "fixLoop", "removeBareReturns", "bareLoop",
                   "print", "format", "returned", "panic"}
        /\ typeInfo = "nil"

(***************************************************************************)
(* C12. The resolver matters only for a sole call: once fixReturns has     *)
(* returned, a return statement that listed two or more values, fewer      *)
(* than its signature has result slots, keeps its input values if the      *)
(* zero value of a missing leading slot is undeterminable and otherwise    *)
(* lists the zero values of the missing slots followed by its input        *)
(* values, whether its first value is a call or not.                       *)
(***************************************************************************)
C12_ResolverOnlyForSoleCall ==
    FixReturnsDone =>
        \A r \in ReturnsOf(file) :
            (/\ Len(In(r)) >= 2
             /\ ~SigOf(r).ResultsNil
             /\ Len(In(r)) < Len(SigOf(r).List))
            => Now(r) =
                 IF \E i \in MissingSlots(r) :
                        PolicyZero(SigOf(r).List[i].Type) = NoNode
                 THEN In(r)
                 ELSE [i \in MissingSlots(r) |->
                         PolicyZero(SigOf(r).List[i].Type)] \o In(r)

\* the return statements C13, C14 and C17 speak of: a sole value, a call,
\* under a signature with more result slots
SoleCall(r) ==
    /\ Len(In(r)) = 1
    /\ In(r)[1].kind = "CallExpr"
    /\ ~SigOf(r).ResultsNil
    /\ 1 < Len(SigOf(r).List)

\* the callee is errors.New or fmt.Errorf
AllowListed(fun) ==
    /\ fun.kind = "SelectorExpr"
    /\ <<fun.X, fun.Sel>> \in {<<"errors", "New">>, <<"fmt", "Errorf">>}

(***************************************************************************)
(* C13. Syntax-only heuristic: without type information, the resolver      *)
(* answers single-valued for a sole call exactly when the callee is a      *)
(* function declared in the file whose declaration has exactly one result  *)
(* or the callee is errors.New or fmt.Errorf; when it is neither, among    *)
(* them a function of the file declaring several results, fixReturns       *)
(* leaves the return statement as on input.                                *)
(***************************************************************************)
C13_SyntaxOnlyHeuristic ==
    (FixReturnsDone /\ typeInfo = "nil") =>
        \A r \in ReturnsOf(file) :
            SoleCall(r) =>
                LET e == In(r)[1]
                    single == \/ IsLocalFuncCall(e) /\ NumResults(e.fun.Decl) = 1
                              \/ AllowListed(e.fun)
                IN  /\ funcHasSingleReturnVal(typeInfo, e) = single
                    /\ ~single => Now(r) = In(r)

(***************************************************************************)
(* C14. Conservative default: for a sole call whose callee is neither a    *)
(* function declared in the file nor errors.New or fmt.Errorf, and for     *)
(* which no valid type is recorded (no type information at all, or type    *)
(* information holding no type or the invalid type for the call), the      *)
(* resolver answers multi-valued and fixReturns leaves the return          *)
(* statement as on input.                                                  *)
(***************************************************************************)
C14_ConservativeDefault ==
    FixReturnsDone =>
        \A r \in ReturnsOf(file) :
            (/\ SoleCall(r)
             /\ ~IsLocalFuncCall(In(r)[1])
             /\ ~AllowListed(In(r)[1].fun)
             /\ (typeInfo = "nil" \/ TypeOf(In(r)[1]) \in {"nil", "Invalid"}))
            => /\ ~funcHasSingleReturnVal(typeInfo, In(r)[1])
               /\ Now(r) = In(r)

(***************************************************************************)
(* C15. Statement locality and order independence: while fixReturns runs   *)
(* and once it has returned, whatever the order of its iterations, no      *)
(* function signature and no node other than a return statement's value    *)
(* list has changed, a return statement not yet visited lists its input    *)
(* values, and a visited one lists what the loop body makes of its own     *)
(* input values under its own signature, whatever was decided for the      *)
(* other return statements.                                                *)
(***************************************************************************)
C15_OrderIndependence ==
    FixReturnsOnly =>
        /\ Len(file) = Len(input)
        /\ \A n \in 1..Len(file) :
            [file[n] EXCEPT !.Results = <<>>] = [input[n] EXCEPT !.Results = <<>>]
        /\ \A r \in ReturnsOf(file) :
            Now(r) = IF pc = "fixReturns" \/ (pc \in {"fixLoop", "panic"} /\ r \in pending)
                     THEN In(r)
                     ELSE fixReturn(typeInfo, In(r), SigOf(r))

C15_Witness ==
    /\ FixReturnsDone
    /\ \E r1, r2 \in ReturnsOf(file) :
        /\ SigOf(r1) # SigOf(r2)
        /\ Now(r1) # In(r1)
        /\ In(r2) # <<>>
        /\ Len(In(r2)) < Len(SigOf(r2).List)
        /\ Now(r2) = In(r2)

(***************************************************************************)
(* C17. The resolver is total: fixReturns never panics on a file with a    *)
(* return statement whose sole value is a call and whose signature has     *)
(* more result slots, the callee being a function of the file that         *)
(* declares no results included.                                           *)
(***************************************************************************)
C17_ResolverTotal ==
    (\E r \in ReturnsOf(file) : SoleCall(r)) => pc # "panic"

(***************************************************************************)
(* cutSpace and matchSpace (returns.go:444..488).  A byte string is a      *)
(* sequence of one-character strings; indexes are the code's, from 0.      *)
(***************************************************************************)
\* most bytes of a generated orig, and of a generated src
MaxOrigLen == 4
MaxSrcLen == 5

\* returns.go:446, 450
IsSpace(c) == c \in {" ", "\t", "\n"}

\* b[lo:hi]
Slice(b, lo, hi) == SubSeq(b, lo + 1, hi)

\* returns.go:445..448 and 449..452, the two loops
RECURSIVE SkipSpace(_, _), SkipSpaceBack(_, _)
SkipSpace(b, i) ==
    IF i < Len(b) /\ IsSpace(b[i + 1]) THEN SkipSpace(b, i + 1) ELSE i
SkipSpaceBack(b, j) ==
    IF j > 0 /\ IsSpace(b[j]) THEN SkipSpaceBack(b, j - 1) ELSE j

cutSpace(b) ==
    LET i == SkipSpace(b, 0)
        j == SkipSpaceBack(b, Len(b))
    IN  IF i <= j
        THEN [before |-> Slice(b, 0, i), middle |-> Slice(b, i, j),
              after |-> Slice(b, j, Len(b))]
        ELSE [before |-> <<>>, middle |-> <<>>, after |-> Slice(b, j, Len(b))]

\* bytes.LastIndex(b, []byte{c}) and bytes.IndexByte(b, c): -1 if c is not in b
LastIndex(b, c) ==
    IF \E k \in 1..Len(b) : b[k] = c
    THEN (CHOOSE k \in 1..Len(b) :
            b[k] = c /\ \A m \in (k + 1)..Len(b) : b[m] # c) - 1
    ELSE -1
IndexByte(b, c) ==
    IF \E k \in 1..Len(b) : b[k] = c
    THEN (CHOOSE k \in 1..Len(b) :
            b[k] = c /\ \A m \in 1..(k - 1) : b[m] # c) - 1
    ELSE -1

\* returns.go:481, the test commented "not blank"; as a bug: every line is
\* indented
NotBlankAlways(line) == TRUE
NotBlank(line) == Len(line) > 0 /\ line[1] # "\n"

\* returns.go:474..485: what the loop writes for src
RECURSIVE WriteLines(_, _)
WriteLines(s, indent) ==
    IF Len(s) = 0 THEN <<>>
    ELSE LET i == IndexByte(s, "\n")
             line == IF i >= 0 THEN Slice(s, 0, i + 1) ELSE s
             rest == IF i >= 0 THEN Slice(s, i + 1, Len(s)) ELSE <<>>
         IN  (IF NotBlank(line) THEN indent ELSE <<>>)
             \o line \o WriteLines(rest, indent)

matchSpace(o, s) ==
    LET cut == cutSpace(o)
        i == LastIndex(cut.before, "\n")
        before == Slice(cut.before, 0, i + 1)
        indent == Slice(cut.before, i + 1, Len(cut.before))
    IN  before \o WriteLines(cutSpace(s).middle, indent) \o cut.after

\* the byte strings of at most n bytes over an alphabet
RECURSIVE BytesOfLen(_, _)
BytesOfLen(alphabet, n) ==
    IF n = 0 THEN {<<>>}
    ELSE {Append(b, c) : b \in BytesOfLen(alphabet, n - 1), c \in alphabet}
BytesUpTo(alphabet, n) == UNION {BytesOfLen(alphabet, k) : k \in 0..n}

InitSpace ==
    /\ pc = "matchSpace"
    /\ opt = [Fragment |-> TRUE, RemoveBareReturns |-> FALSE]
    /\ orig \in BytesUpTo({" ", "\t", "\n", "x"}, MaxOrigLen)
    /\ src \in BytesUpTo({" ", "\n", "x"}, MaxSrcLen)
    /\ matched = <<>>
    /\ IdleFix
    /\ IdleParse
    /\ IdleZero
    /\ IdleProc

\* out = adjust(src, out), returns.go:270, for a fragment
MatchSpace ==
    /\ pc = "matchSpace"
    /\ matched' = matchSpace(orig, src)
    /\ pc' = "matched"
    /\ UNCHANGED <<opt, orig, src, fixVars, parseVars, zeroVars, procVars>>

SpecSpace == InitSpace /\ [][MatchSpace]_vars

\* what the claim speaks of, read off the bytes: the length of the longest
\* prefix, and suffix, of b made of white space
AllSpace(b) == \A k \in 1..Len(b) : IsSpace(b[k])
LeadingSpaceLen(b) ==
    CHOOSE n \in 0..Len(b) :
        /\ \A k \in 1..n : IsSpace(b[k])
        /\ n < Len(b) => ~IsSpace(b[n + 1])
TrailingSpaceLen(b) ==
    CHOOSE n \in 0..Len(b) :
        /\ \A k \in (Len(b) - n + 1)..Len(b) : IsSpace(b[k])
        /\ n < Len(b) => ~IsSpace(b[Len(b) - n])
\* the length of the run of blank lines b begins with
BlankLinesLen(b) ==
    CHOOSE n \in 0..LeadingSpaceLen(b) :
        /\ n = 0 \/ b[n] = "\n"
        /\ \A k \in (n + 1)..LeadingSpaceLen(b) : b[k] # "\n"
LeadingBlankLines(b) == SubSeq(b, 1, BlankLinesLen(b))
\* the white space the first non-blank line of b begins with
Indentation(b) == SubSeq(b, BlankLinesLen(b) + 1, LeadingSpaceLen(b))
TrailingSpace(b) == SubSeq(b, Len(b) - TrailingSpaceLen(b) + 1, Len(b))
TrimSpace(b) ==
    IF AllSpace(b) THEN <<>>
    ELSE SubSeq(b, LeadingSpaceLen(b) + 1, Len(b) - TrailingSpaceLen(b))

\* a line of s starts at k; that line holds white space only; it is empty
LineStart(s, k) == k = 1 \/ s[k - 1] = "\n"
BlankLineAt(s, k) ==
    \A m \in k..Len(s) : (\A n \in k..(m - 1) : s[n] # "\n") => IsSpace(s[m])
EmptyLineAt(s, k) == s[k] = "\n"

RECURSIVE Concat(_)
Concat(ss) == IF ss = <<>> THEN <<>> ELSE Head(ss) \o Concat(Tail(ss))
\* s with indent before every line that is not blank
Indented(s, indent, blank(_, _)) ==
    Concat([k \in 1..Len(s) |->
               (IF LineStart(s, k) /\ ~blank(s, k) THEN indent ELSE <<>>)
               \o <<s[k]>>])

====
